---- MODULE Spec2Model ----
(***************************************************************************)
(* Model of the fission executor's creation coordinator                    *)
(* (executor/executor.go): the admission goroutine serveCreateFuncServices,*)
(* the creation and wait goroutines it launches, createServiceForFunction  *)
(* and getFunctionEnv.                                                     *)
(*                                                                         *)
(* Every request is one value of Reqs.  A request that misses the marker   *)
(* table fsCreateWg gets a creation goroutine, one that finds a marker     *)
(* gets a wait goroutine; pc[r] is the position of request r's goroutine   *)
(* and is named after the call it is about to make.                        *)
(***************************************************************************)
EXTENDS Integers, Sequences, FiniteSets, TLC

\* ---------------------------------------------------------------- bounds
NReq == 3
MaxTime == 10
TickStep == 10

\* ------------------------------------------------------ program constants
\* cache.MakeCache(10*time.Second, 0): expiry counted from insertion, seconds
ctimeExpiry == 10

Reqs == 1..NReq
Keys == {"F1", "F2"}
NoReq == 0
NoSvc == 0
NoKey == "-"

\* error values (nil is "nil")
ErrNil == "nil"
ErrFunction == "FunctionNotFound"
ErrEnvironment == "EnvironmentNotFound"
ErrGetPool == "GetPoolError"
ErrGetFuncSvc == "GetFuncSvcError"
ErrRegistry == "RegistryNotFound"

VARIABLES
    pc,            \* pc[r]: position of request r / of its goroutine
    funcMeta,      \* funcMeta[r]: crd.CacheKey(req.funcMeta), NoKey before Submit
    admReq,        \* the request the admission loop holds (req), NoReq when at line 77
    admFound,      \* found of line 81
    admWg,         \* wg of line 81 (the request whose miss created the WaitGroup)
    fsCreateWg,    \* executor.fsCreateWg: set of <<key, wg>>
    wgCount,       \* wgCount[w]: counter of the sync.WaitGroup made for request w
    waitWg,        \* waitWg[r]: the wg captured by r's wait goroutine
    ret,           \* ret[r]: (fsvc, err) the goroutine of r holds
    respChan,      \* respChan[r]: sequence of responses received on req.respChan
    functionEnv,   \* executor.functionEnv: key -> insertion time, -1 when absent
    fsCache,       \* executor.fsCache: key -> the FuncSvc registered, NoSvc when absent
    backendEnv,    \* the process environment's EXECUTOR_BACKEND
    now,           \* wall clock, seconds
    fatal,         \* the Go runtime threw on a concurrent map access
    strategy,      \* history: strategy[r] the backend createServiceForFunction used for r
    backendAtMake, \* history: EXECUTOR_BACKEND when MakeExecutor ran
    role,          \* history: role[r] is "create" (miss) or "wait" (duplicate)
    envHit,        \* history: envHit[r] is "hit" or "miss", the outcome of r's cache lookup
    overlap        \* history: overlap[r] the same-key requests still unanswered when r was submitted

vars == <<pc, funcMeta, admReq, admFound, admWg, fsCreateWg, wgCount, waitWg, ret,
          respChan, functionEnv, fsCache, backendEnv, now, fatal, strategy,
          backendAtMake, role, envHit, overlap>>

coordVars == <<admReq, admFound, admWg, fsCreateWg, wgCount, waitWg>>
histVars == <<strategy, backendAtMake, role, envHit, overlap>>

Backends == {"POOLMGR", "DEPLOY"}

\* createFuncServiceResponse{funcSvc, err}
Response(fsvc, err) == [funcSvc |-> fsvc, err |-> err]
NoResponse == Response(NoSvc, "-")

\* ------------------------------------------------------------ marker table
\* wg, found := executor.fsCreateWg[key]
Found(table, k) == \E e \in table : e[1] = k
Lookup(table, k) == IF Found(table, k) THEN (CHOOSE e \in table : e[1] = k)[2] ELSE NoReq

\* a marker insertion that is lost
MapAssignLost(table, k, w) == table

\* executor.fsCreateWg[key] = wg
MapAssign(table, k, w) == {e \in table : e[1] # k} \cup {<<k, w>>}

\* a release that clears the whole table
MapDeleteAll(table, k) == {}

\* delete(executor.fsCreateWg, key)
MapDelete(table, k) == {e \in table : e[1] # k}

\* ------------------------------------------------------ environment cache
\* functionEnv.Get(key) succeeds: an entry exists and has not expired
CacheHit(cache, k, t) == cache[k] >= 0 /\ t - cache[k] < ctimeExpiry

\* ------------------------------------------------------------------- Init
\* MakeExecutor: empty request channel, empty marker table, empty caches
Init ==
    /\ pc = [r \in Reqs |-> "idle"]
    /\ funcMeta = [r \in Reqs |-> NoKey]
    /\ admReq = NoReq
    /\ admFound = FALSE
    /\ admWg = NoReq
    /\ fsCreateWg = {}
    /\ wgCount = [r \in Reqs |-> 0]
    /\ waitWg = [r \in Reqs |-> NoReq]
    /\ ret = [r \in Reqs |-> NoResponse]
    /\ respChan = [r \in Reqs |-> <<>>]
    /\ functionEnv = [k \in Keys |-> -1]
    /\ fsCache = [k \in Keys |-> NoSvc]
    /\ backendEnv \in Backends
    /\ now = 0
    /\ fatal = FALSE
    /\ strategy = [r \in Reqs |-> "-"]
    /\ backendAtMake = backendEnv
    /\ role = [r \in Reqs |-> "-"]
    /\ envHit = [r \in Reqs |-> "-"]
    /\ overlap = [r \in Reqs |-> {}]

\* ------------------------------------------------------------------ Submit
\* A caller sends createFuncServiceRequest{funcMeta, respChan} on requestChan and
\* blocks on respChan.  Requests are taken in index order and the first one is
\* for F1 (requests, and keys, are interchangeable).
Submit(r, k) ==
    /\ ~fatal
    /\ pc[r] = "idle"
    /\ \A q \in Reqs : q < r => pc[q] # "idle"
    /\ r = 1 => k = "F1"
    /\ pc' = [pc EXCEPT ![r] = "pending"]
    /\ funcMeta' = [funcMeta EXCEPT ![r] = k]
    /\ overlap' = [overlap EXCEPT ![r] =
                      {q \in Reqs : pc[q] # "idle" /\ funcMeta[q] = k /\ respChan[q] = <<>>}]
    /\ UNCHANGED <<coordVars, ret, respChan, functionEnv, fsCache, backendEnv, now,
                   fatal, strategy, backendAtMake, role, envHit>>

\* --------------------------------------------------------- admission loop
\* an admission loop that runs the creation inline: it takes the next request only
\* when no createServiceForFunction is running
AdmitLookupInline(r) ==
    /\ ~fatal
    /\ admReq = NoReq
    /\ pc[r] = "pending"
    /\ \A q \in Reqs : role[q] = "create" => pc[q] \in {"respond", "delete", "wgDone", "done"}
    /\ admReq' = r
    /\ admFound' = Found(fsCreateWg, funcMeta[r])
    /\ admWg' = Lookup(fsCreateWg, funcMeta[r])
    /\ pc' = [pc EXCEPT ![r] = "admit"]
    /\ UNCHANGED <<funcMeta, fsCreateWg, wgCount, waitWg, ret, respChan, functionEnv,
                   fsCache, backendEnv, now, fatal, histVars>>

\* req := <-executor.requestChan; wg, found := executor.fsCreateWg[crd.CacheKey(m)]
AdmitLookup(r) ==
    /\ ~fatal
    /\ admReq = NoReq
    /\ pc[r] = "pending"
    /\ admReq' = r
    /\ admFound' = Found(fsCreateWg, funcMeta[r])
    /\ admWg' = Lookup(fsCreateWg, funcMeta[r])
    /\ pc' = [pc EXCEPT ![r] = "admit"]
    /\ UNCHANGED <<funcMeta, fsCreateWg, wgCount, waitWg, ret, respChan, functionEnv,
                   fsCache, backendEnv, now, fatal, histVars>>

\* if !found: wg := &sync.WaitGroup{}; wg.Add(1); fsCreateWg[key] = wg; go func(){...}
AdmitMiss ==
    /\ ~fatal
    /\ admReq # NoReq
    /\ ~admFound
    /\ wgCount' = [wgCount EXCEPT ![admReq] = @ + 1]
    /\ fsCreateWg' = MapAssign(fsCreateWg, funcMeta[admReq], admReq)
    /\ pc' = [pc EXCEPT ![admReq] = "getFunctionEnv"]
    /\ role' = [role EXCEPT ![admReq] = "create"]
    /\ admReq' = NoReq
    /\ admFound' = FALSE
    /\ admWg' = NoReq
    /\ UNCHANGED <<funcMeta, waitWg, ret, respChan, functionEnv, fsCache, backendEnv,
                   now, fatal, strategy, backendAtMake, envHit, overlap>>

\* else: go func(){ wg.Wait(); ... } with the wg found at line 81
AdmitDup ==
    /\ ~fatal
    /\ admReq # NoReq
    /\ admFound
    /\ waitWg' = [waitWg EXCEPT ![admReq] = admWg]
    /\ pc' = [pc EXCEPT ![admReq] = "wgWait"]
    /\ role' = [role EXCEPT ![admReq] = "wait"]
    /\ admReq' = NoReq
    /\ admFound' = FALSE
    /\ admWg' = NoReq
    /\ UNCHANGED <<funcMeta, fsCreateWg, wgCount, ret, respChan, functionEnv, fsCache,
                   backendEnv, now, fatal, strategy, backendAtMake, envHit, overlap>>

\* ------------------------------------------------------- getFunctionEnv
\* a resolver that never consults the cache
EnvCacheGetSkipped(r) ==
    /\ ~fatal
    /\ pc[r] = "getFunctionEnv"
    /\ pc' = [pc EXCEPT ![r] = "Functions_Get"]
    /\ envHit' = [envHit EXCEPT ![r] = "miss"]
    /\ UNCHANGED <<funcMeta, coordVars, ret, respChan, functionEnv, fsCache, backendEnv,
                   now, fatal, strategy, backendAtMake, role, overlap>>

\* result, err := executor.functionEnv.Get(crd.CacheKey(m)); if err == nil return
EnvCacheGet(r) ==
    /\ ~fatal
    /\ pc[r] = "getFunctionEnv"
    /\ IF CacheHit(functionEnv, funcMeta[r], now)
         THEN /\ pc' = [pc EXCEPT ![r] = "backend"]
              /\ envHit' = [envHit EXCEPT ![r] = "hit"]
         ELSE /\ pc' = [pc EXCEPT ![r] = "Functions_Get"]
              /\ envHit' = [envHit EXCEPT ![r] = "miss"]
    /\ UNCHANGED <<funcMeta, coordVars, ret, respChan, functionEnv, fsCache, backendEnv,
                   now, fatal, strategy, backendAtMake, role, overlap>>

\* f, err := executor.fissionClient.Functions(ns).Get(name); if err != nil return nil, err
FunctionsGet(r) ==
    /\ ~fatal
    /\ pc[r] = "Functions_Get"
    /\ \/ /\ pc' = [pc EXCEPT ![r] = "Environments_Get"]
          /\ ret' = ret
       \/ /\ pc' = [pc EXCEPT ![r] = "respond"]
          /\ ret' = [ret EXCEPT ![r] = Response(NoSvc, ErrFunction)]
    /\ UNCHANGED <<funcMeta, coordVars, respChan, functionEnv, fsCache, backendEnv, now,
                   fatal, histVars>>

\* an environment fetch whose failure is remembered in the cache
EnvironmentsGetNegativeCache(r) ==
    /\ ~fatal
    /\ pc[r] = "Environments_Get"
    /\ \/ /\ pc' = [pc EXCEPT ![r] = "functionEnv_Set"]
          /\ ret' = ret
          /\ functionEnv' = functionEnv
       \/ /\ pc' = [pc EXCEPT ![r] = "respond"]
          /\ ret' = [ret EXCEPT ![r] = Response(NoSvc, ErrEnvironment)]
          /\ functionEnv' = [functionEnv EXCEPT ![funcMeta[r]] = now]
    /\ UNCHANGED <<funcMeta, coordVars, respChan, fsCache, backendEnv, now, fatal,
                   histVars>>

\* env, err = executor.fissionClient.Environments(ns).Get(name); if err != nil return nil, err
EnvironmentsGet(r) ==
    /\ ~fatal
    /\ pc[r] = "Environments_Get"
    /\ \/ /\ pc' = [pc EXCEPT ![r] = "functionEnv_Set"]
          /\ ret' = ret
       \/ /\ pc' = [pc EXCEPT ![r] = "respond"]
          /\ ret' = [ret EXCEPT ![r] = Response(NoSvc, ErrEnvironment)]
    /\ UNCHANGED <<funcMeta, coordVars, respChan, functionEnv, fsCache, backendEnv, now,
                   fatal, histVars>>

\* executor.functionEnv.Set(crd.CacheKey(m), env); return env, nil
EnvCacheSet(r) ==
    /\ ~fatal
    /\ pc[r] = "functionEnv_Set"
    /\ functionEnv' = [functionEnv EXCEPT ![funcMeta[r]] = now]
    /\ pc' = [pc EXCEPT ![r] = "backend"]
    /\ UNCHANGED <<funcMeta, coordVars, ret, respChan, fsCache, backendEnv, now, fatal,
                   histVars>>

\* ----------------------------------------------- createServiceForFunction
\* a strategy captured when the executor was constructed
BackendAtConstruction == backendAtMake

\* backend := os.Getenv("EXECUTOR_BACKEND")
Backend == backendEnv

\* a switch whose "DEPLOY" case falls through to the pool manager
BackendSwitchFallthrough(r) ==
    /\ ~fatal
    /\ pc[r] = "backend"
    /\ strategy' = [strategy EXCEPT ![r] = Backend]
    /\ ret' = ret
    /\ pc' = [pc EXCEPT ![r] = "GetPool"]
    /\ UNCHANGED <<funcMeta, coordVars, respChan, functionEnv, fsCache, backendEnv, now,
                   fatal, backendAtMake, role, envHit, overlap>>

\* switch backend { case "DEPLOY": return nil, nil; default: pool, err := GetPool(env) }
BackendSwitch(r) ==
    /\ ~fatal
    /\ pc[r] = "backend"
    /\ strategy' = [strategy EXCEPT ![r] = Backend]
    /\ IF Backend = "DEPLOY"
         THEN /\ ret' = [ret EXCEPT ![r] = Response(NoSvc, ErrNil)]
              /\ pc' = [pc EXCEPT ![r] = "respond"]
         ELSE /\ ret' = ret
              /\ pc' = [pc EXCEPT ![r] = "GetPool"]
    /\ UNCHANGED <<funcMeta, coordVars, respChan, functionEnv, fsCache, backendEnv, now,
                   fatal, backendAtMake, role, envHit, overlap>>

\* a GetPool whose error is not checked before GetFuncSvc is called
GetPoolErrorIgnored(r) ==
    /\ ~fatal
    /\ pc[r] = "GetPool"
    /\ pc' = [pc EXCEPT ![r] = "GetFuncSvc"]
    /\ \/ ret' = ret
       \/ ret' = [ret EXCEPT ![r] = Response(NoSvc, ErrGetPool)]
    /\ UNCHANGED <<funcMeta, coordVars, respChan, functionEnv, fsCache, backendEnv, now,
                   fatal, histVars>>

\* pool, err := executor.gpm.GetPool(env); if err != nil return nil, err
GetPool(r) ==
    /\ ~fatal
    /\ pc[r] = "GetPool"
    /\ \/ /\ pc' = [pc EXCEPT ![r] = "GetFuncSvc"]
          /\ ret' = ret
       \/ /\ pc' = [pc EXCEPT ![r] = "respond"]
          /\ ret' = [ret EXCEPT ![r] = Response(NoSvc, ErrGetPool)]
    /\ UNCHANGED <<funcMeta, coordVars, respChan, functionEnv, fsCache, backendEnv, now,
                   fatal, histVars>>

\* fsvc, err := pool.GetFuncSvc(m) (this also adds to the cache); the service made
\* for request r is the handle r
GetFuncSvc(r) ==
    /\ ~fatal
    /\ pc[r] = "GetFuncSvc"
    /\ \/ /\ ret' = [ret EXCEPT ![r] = Response(r, ErrNil)]
          /\ fsCache' = [fsCache EXCEPT ![funcMeta[r]] = r]
       \/ /\ ret' = [ret EXCEPT ![r] = Response(NoSvc, ErrGetFuncSvc)]
          /\ fsCache' = fsCache
    /\ pc' = [pc EXCEPT ![r] = "respond"]
    /\ UNCHANGED <<funcMeta, coordVars, respChan, functionEnv, backendEnv, now, fatal,
                   histVars>>

\* ------------------------------------------------------ creation goroutine
\* a creation goroutine that delivers what the registry holds for the key instead
\* of what its own pipeline returned
RespondFromRegistry(r) ==
    /\ ~fatal
    /\ pc[r] = "respond"
    /\ respChan' = [respChan EXCEPT ![r] = Append(@,
                        IF fsCache[funcMeta[r]] # NoSvc
                          THEN Response(fsCache[funcMeta[r]], ErrNil)
                          ELSE Response(NoSvc, ErrRegistry))]
    /\ pc' = [pc EXCEPT ![r] = "delete"]
    /\ UNCHANGED <<funcMeta, coordVars, ret, functionEnv, fsCache, backendEnv, now,
                   fatal, histVars>>

\* a creation goroutine that releases without having sent its result
RespondSkipped(r) ==
    /\ ~fatal
    /\ pc[r] = "respond"
    /\ pc' = [pc EXCEPT ![r] = "delete"]
    /\ UNCHANGED <<funcMeta, coordVars, ret, respChan, functionEnv, fsCache, backendEnv,
                   now, fatal, histVars>>

\* req.respChan <- &createFuncServiceResponse{funcSvc: fsvc, err: err}
Respond(r) ==
    /\ ~fatal
    /\ pc[r] = "respond"
    /\ respChan' = [respChan EXCEPT ![r] = Append(@, ret[r])]
    /\ pc' = [pc EXCEPT ![r] = "delete"]
    /\ UNCHANGED <<funcMeta, coordVars, ret, functionEnv, fsCache, backendEnv, now,
                   fatal, histVars>>

\* delete(executor.fsCreateWg, crd.CacheKey(m))
DeleteMarker(r) ==
    /\ ~fatal
    /\ pc[r] = "delete"
    /\ fsCreateWg' = MapDelete(fsCreateWg, funcMeta[r])
    /\ pc' = [pc EXCEPT ![r] = "wgDone"]
    /\ UNCHANGED <<funcMeta, admReq, admFound, admWg, wgCount, waitWg, ret, respChan,
                   functionEnv, fsCache, backendEnv, now, fatal, histVars>>

\* a creation goroutine that ends without signalling its WaitGroup
WgDoneForgotten(r) ==
    /\ ~fatal
    /\ pc[r] = "wgDone"
    /\ pc' = [pc EXCEPT ![r] = "done"]
    /\ UNCHANGED <<funcMeta, coordVars, ret, respChan, functionEnv, fsCache, backendEnv,
                   now, fatal, histVars>>

\* wg.Done()
WgDone(r) ==
    /\ ~fatal
    /\ pc[r] = "wgDone"
    /\ wgCount' = [wgCount EXCEPT ![r] = @ - 1]
    /\ pc' = [pc EXCEPT ![r] = "done"]
    /\ UNCHANGED <<funcMeta, admReq, admFound, admWg, fsCreateWg, waitWg, ret, respChan,
                   functionEnv, fsCache, backendEnv, now, fatal, histVars>>

\* ---------------------------------------------------------- wait goroutine
\* a wait goroutine that does not wait
WgWaitNotBlocking(r) ==
    /\ ~fatal
    /\ pc[r] = "wgWait"
    /\ pc' = [pc EXCEPT ![r] = "GetByFunction"]
    /\ UNCHANGED <<funcMeta, coordVars, ret, respChan, functionEnv, fsCache, backendEnv,
                   now, fatal, histVars>>

\* wg.Wait(): returns once the counter is zero
WgWait(r) ==
    /\ ~fatal
    /\ pc[r] = "wgWait"
    /\ wgCount[waitWg[r]] = 0
    /\ pc' = [pc EXCEPT ![r] = "GetByFunction"]
    /\ UNCHANGED <<funcMeta, coordVars, ret, respChan, functionEnv, fsCache, backendEnv,
                   now, fatal, histVars>>

\* fsCache.GetByFunction(m): the registered service, or a not-found error
RegistryLookup(cache, k) ==
    IF cache[k] # NoSvc THEN Response(cache[k], ErrNil) ELSE Response(NoSvc, ErrRegistry)

\* fsvc, err := executor.fsCache.GetByFunction(m)
GetByFunction(r) ==
    /\ ~fatal
    /\ pc[r] = "GetByFunction"
    /\ ret' = [ret EXCEPT ![r] = RegistryLookup(fsCache, funcMeta[r])]
    /\ pc' = [pc EXCEPT ![r] = "respondWait"]
    /\ UNCHANGED <<funcMeta, coordVars, respChan, functionEnv, fsCache, backendEnv, now,
                   fatal, histVars>>

\* req.respChan <- &createFuncServiceResponse{funcSvc: fsvc, err: err}
RespondWait(r) ==
    /\ ~fatal
    /\ pc[r] = "respondWait"
    /\ respChan' = [respChan EXCEPT ![r] = Append(@, ret[r])]
    /\ pc' = [pc EXCEPT ![r] = "done"]
    /\ UNCHANGED <<funcMeta, coordVars, ret, functionEnv, fsCache, backendEnv, now,
                   fatal, histVars>>

\* ------------------------------------------------------------ environment
\* time passes
Tick ==
    /\ ~fatal
    /\ now + TickStep <= MaxTime
    /\ now' = now + TickStep
    /\ UNCHANGED <<pc, funcMeta, coordVars, ret, respChan, functionEnv, fsCache,
                   backendEnv, fatal, histVars>>

\* the process environment's EXECUTOR_BACKEND is given another value
SetBackend(b) ==
    /\ ~fatal
    /\ b # backendEnv
    /\ backendEnv' = b
    /\ UNCHANGED <<pc, funcMeta, coordVars, ret, respChan, functionEnv, fsCache, now,
                   fatal, histVars>>

\* The creation goroutine's delete (line 97) takes no lock, so it can run at the
\* same time as the admission goroutine's map read (line 81) or map write (line
\* 87).  Besides the two orders of the accesses, which DeleteMarker, AdmitLookup
\* and AdmitMiss give, the Go runtime may detect the overlap and throw
\* "concurrent map read and map write" / "concurrent map writes", which ends the
\* process.
AdmissionAtMap ==
    \/ admReq = NoReq /\ \E r \in Reqs : pc[r] = "pending"
    \/ admReq # NoReq /\ ~admFound

ConcurrentMapAccess ==
    /\ ~fatal
    /\ \E r \in Reqs : pc[r] = "delete"
    /\ AdmissionAtMap
    /\ fatal' = TRUE
    /\ UNCHANGED <<pc, funcMeta, coordVars, ret, respChan, functionEnv, fsCache,
                   backendEnv, now, histVars>>

\* ------------------------------------------------------------------- Next
Admission == AdmitMiss \/ AdmitDup \/ \E r \in Reqs : AdmitLookup(r)

Resolve(r) == EnvCacheGet(r) \/ FunctionsGet(r) \/ EnvironmentsGet(r) \/ EnvCacheSet(r)

CreateService(r) == BackendSwitch(r) \/ GetPool(r) \/ GetFuncSvc(r)

CreationTask(r) == Resolve(r) \/ CreateService(r) \/ Respond(r) \/ DeleteMarker(r) \/ WgDone(r)

WaitTask(r) == WgWait(r) \/ GetByFunction(r) \/ RespondWait(r)

Next ==
    \/ \E r \in Reqs, k \in Keys : Submit(r, k)
    \/ Admission
    \/ \E r \in Reqs : CreationTask(r)
    \/ \E r \in Reqs : WaitTask(r)
    \/ Tick
    \/ \E b \in Backends : SetBackend(b)
    \/ ConcurrentMapAccess

Spec == Init /\ [][Next]_vars

\* ================================================================= claims
Submitted(r) == pc[r] # "idle"
Answered(r) == Len(respChan[r]) >= 1
Result(r) == respChan[r][1]
SameKey(r, q) == Submitted(r) /\ Submitted(q) /\ funcMeta[r] = funcMeta[q]

\* createServiceForFunction is running for r
InPipeline(r) ==
    pc[r] \in {"getFunctionEnv", "Functions_Get", "Environments_Get", "functionEnv_Set",
               "backend", "GetPool", "GetFuncSvc"}

\* r's creation goroutine has not yet executed its delete
BeforeDelete(r) == InPipeline(r) \/ pc[r] \in {"respond", "delete"}

\* C1: at every instant at most one creation pipeline runs per function
\* identity (even counting a creation goroutine up to its delete), and the marker
\* table holds at most one marker per identity.
C1_OnePipelinePerKey ==
    /\ \A r, q \in Reqs : (r # q /\ BeforeDelete(r) /\ BeforeDelete(q)) => funcMeta[r] # funcMeta[q]
    /\ \A e, f \in fsCreateWg : e[1] = f[1] => e = f

\* C1 witness: a pipeline runs for a key for which an earlier creation has
\* already released its marker, and meanwhile a duplicate waits on the new one.
C1_Witness ==
    \E r, q, d \in Reqs :
        /\ r # q /\ SameKey(r, q) /\ SameKey(r, d)
        /\ InPipeline(r) /\ pc[q] = "done" /\ role[q] = "create"
        /\ pc[d] = "wgWait" /\ waitWg[d] = r

\* C2: of two requests sharing an identity that overlap (the later one submitted
\* before the earlier one got its result) at most one reaches the pool manager's
\* creation path, and their successful results are one and the same handle.
C2_OnePipelinePerConcurrentSet ==
    \A r \in Reqs : \A q \in overlap[r] :
        /\ ~(strategy[r] = "POOLMGR" /\ strategy[q] = "POOLMGR")
        /\ (Answered(r) /\ Answered(q) /\ Result(r).err = ErrNil /\ Result(q).err = ErrNil)
              => Result(r).funcSvc = Result(q).funcSvc

\* C3: the admission path never classifies a request for key K while a creation
\* goroutine for K has deleted K's marker but not yet signalled its WaitGroup.
C3_ReleaseIsAtomic ==
    [][(admReq = NoReq /\ admReq' # NoReq) =>
          ~\E q \in Reqs : pc[q] = "wgDone" /\ funcMeta[q] = funcMeta[admReq']]_vars

\* C4: every submitted request gets exactly one result on its conduit.  Stated on
\* the runs that have come to rest: when no step is possible any more, every
\* submitted request has received one result, and never does a conduit hold two.
C4_EveryRequestAnswered ==
    /\ \A r \in Reqs : Len(respChan[r]) <= 1
    /\ (~ENABLED Next) => \A r \in Reqs : Submitted(r) => Len(respChan[r]) = 1

\* C5: a duplicate that receives a handle receives the handle of the creation
\* whose marker it joined, never the handle of another creation of the key.
C5_DuplicateSeesJoinedCreation ==
    \A r \in Reqs :
        (role[r] = "wait" /\ Answered(r) /\ Result(r).err = ErrNil)
            => Result(r).funcSvc = waitWg[r]

\* C6: a duplicate that joined a creation which failed receives an error (the
\* registry's not-found, the wait-failed class), never a successful handle.
C6_WaiterOfFailedCreationGetsError ==
    \A r \in Reqs :
        (role[r] = "wait" /\ Answered(r) /\ Answered(waitWg[r])
            /\ Result(waitWg[r]).err # ErrNil)
            => Result(r).err = ErrRegistry

\* C7: a failed creation does not leave its marker in the table: when the run has
\* come to rest, no marker of a creation that delivered an error is in the table.
C7_NoStuckMarker ==
    (~ENABLED Next) =>
        \A r \in Reqs :
            (role[r] = "create" /\ Answered(r) /\ Result(r).err # ErrNil)
                => <<funcMeta[r], r>> \notin fsCreateWg

\* C8: in every state of the running process the admission path can take its next
\* step whatever the creation and wait goroutines are doing, a creation goroutine
\* can always take its next step whatever the other goroutines are doing, and a
\* wait goroutine that cannot proceed is held only by the unfinished creation of
\* its own key.
C8_AdmissionNeverBlocked ==
    ~fatal =>
        /\ \A r \in Reqs : (admReq = NoReq /\ pc[r] = "pending") => ENABLED AdmitLookup(r)
        /\ admReq # NoReq => ENABLED (AdmitMiss \/ AdmitDup)
        /\ \A r \in Reqs : (BeforeDelete(r) \/ pc[r] = "wgDone") => ENABLED CreationTask(r)
        /\ \A r \in Reqs : (pc[r] = "wgWait" /\ ~ENABLED WgWait(r)) =>
               /\ funcMeta[waitWg[r]] = funcMeta[r]
               /\ BeforeDelete(waitWg[r]) \/ pc[waitWg[r]] = "wgDone"

\* C8 witness: the creation for F1, submitted first, has not taken a single step
\* of its pipeline, while a later request for F2 has been admitted, has run its
\* own pipeline and has received its result; a third request is still pending.
C8_Witness ==
    \E r, q, p \in Reqs :
        /\ r < q /\ funcMeta[r] = "F1" /\ funcMeta[q] = "F2"
        /\ pc[r] = "getFunctionEnv"
        /\ pc[q] = "done" /\ role[q] = "create" /\ Answered(q)
        /\ pc[p] = "pending" /\ admReq = NoReq

\* C9 (as the spec states it): every creation uses the strategy the configuration
\* selected when the executor was constructed.
C9_StrategyFixedAtConstruction ==
    \A r \in Reqs : strategy[r] # "-" => strategy[r] = backendAtMake

\* C9 (amended): every creation dispatches on the value EXECUTOR_BACKEND has at the
\* moment createServiceForFunction reads it: "DEPLOY" returns (nil, nil) without
\* the pool manager, any other value goes on to GetPool.
C9_StrategyReadPerCall ==
    [][\A r \in Reqs : (pc[r] = "backend" /\ pc'[r] # "backend") =>
          IF backendEnv = "DEPLOY"
            THEN pc'[r] = "respond" /\ ret'[r] = Response(NoSvc, ErrNil)
            ELSE pc'[r] = "GetPool"]_vars

\* C9 witness: a creation has dispatched on a strategy other than the one that was
\* configured when the executor was constructed.
C9_Witness ==
    \E r \in Reqs : pc[r] = "GetPool" /\ strategy[r] = "POOLMGR" /\ backendAtMake = "DEPLOY"

\* C10: while the environment cached for an identity is within its expiry window
\* no resolution for that identity is at a metadata-client call: a resolution
\* that finds the entry returns it without fetching.
C10_NoFetchInsideWindow ==
    \A r \in Reqs :
        pc[r] \in {"Functions_Get", "Environments_Get"}
            => ~CacheHit(functionEnv, funcMeta[r], now)

\* C10 witness: a second resolution for an identity, inside the window of the
\* entry an earlier resolution fetched and cached, was a cache hit.
C10_Witness ==
    \E r, q \in Reqs :
        /\ r # q /\ SameKey(r, q)
        /\ envHit[q] = "miss" /\ pc[q] = "done"
        /\ envHit[r] = "hit" /\ pc[r] = "backend"
        /\ CacheHit(functionEnv, funcMeta[r], now)

\* the creation goroutine of r is past createServiceForFunction
AfterPipeline(r) == pc[r] \in {"respond", "delete", "wgDone", "done"}

\* createServiceForFunction returned an error for r
PipelineFailed(r) == role[r] = "create" /\ ret[r].err \notin {"-", ErrNil}

\* the wait goroutine of r is past wg.Wait()
AfterWait(r) == role[r] = "wait" /\ pc[r] \in {"GetByFunction", "respondWait", "done"}

\* C11: no negative caching.  A failing function fetch aborts the resolution with
\* the function error without the environment fetch being attempted, a failing
\* environment fetch aborts it with the environment error, neither changes the
\* environment cache, and the cache changes only in the Set of a resolution whose
\* two fetches succeeded; a lookup that finds no live entry goes on to fetch.
C11_NoNegativeCaching ==
    [][/\ \A r \in Reqs :
            /\ (pc[r] = "Functions_Get" /\ pc'[r] # "Functions_Get") =>
                  \/ pc'[r] = "Environments_Get" /\ ret'[r] = ret[r]
                  \/ /\ pc'[r] = "respond" /\ ret'[r] = Response(NoSvc, ErrFunction)
                     /\ functionEnv' = functionEnv
            /\ (pc[r] = "Environments_Get" /\ pc'[r] # "Environments_Get") =>
                  \/ pc'[r] = "functionEnv_Set" /\ ret'[r] = ret[r]
                  \/ /\ pc'[r] = "respond" /\ ret'[r] = Response(NoSvc, ErrEnvironment)
                     /\ functionEnv' = functionEnv
            /\ (pc[r] = "getFunctionEnv" /\ pc'[r] # "getFunctionEnv"
                  /\ ~CacheHit(functionEnv, funcMeta[r], now)) => pc'[r] = "Functions_Get"
       /\ \A k \in Keys : functionEnv'[k] # functionEnv[k] =>
            \E r \in Reqs : /\ funcMeta[r] = k /\ pc[r] = "functionEnv_Set"
                            /\ pc'[r] = "backend" /\ ~PipelineFailed(r)]_vars

\* C11 witness: a resolution failed at the environment fetch, nothing was cached
\* for the identity, and the next resolution for it is fetching the function again.
C11_Witness ==
    \E r, q \in Reqs :
        /\ r # q /\ SameKey(r, q)
        /\ pc[r] = "done" /\ ret[r] = Response(NoSvc, ErrEnvironment)
        /\ functionEnv[funcMeta[r]] = -1
        /\ pc[q] = "Functions_Get" /\ envHit[q] = "miss"

\* C12: a creation that dispatched on "DEPLOY" returns the empty result with no
\* error and never calls the pool manager: it is never at GetPool or GetFuncSvc,
\* it registers no service, and what its requester receives is (nil, nil).
C12_DeployReturnsEmpty ==
    \A r \in Reqs : strategy[r] = "DEPLOY" =>
        /\ AfterPipeline(r)
        /\ ret[r] = Response(NoSvc, ErrNil)
        /\ fsCache[funcMeta[r]] # r
        /\ Answered(r) => Result(r) = Response(NoSvc, ErrNil)

\* C12 witness: a requester has received the empty result of a deploy-backed creation.
C12_Witness ==
    \E r \in Reqs : strategy[r] = "DEPLOY" /\ Answered(r) /\ Result(r) = Response(NoSvc, ErrNil)

\* C13: a creation whose pipeline failed is past the pipeline with the failing
\* stage's error and no handle: after a resolution error the backend was not
\* dispatched, after a GetPool error no service was registered, no stage runs
\* again, and what the direct requester receives is exactly that error.
C13_FailureAbortsPipeline ==
    \A r \in Reqs : PipelineFailed(r) =>
        /\ AfterPipeline(r)
        /\ ret[r].funcSvc = NoSvc
        /\ ret[r].err \in {ErrFunction, ErrEnvironment, ErrGetPool, ErrGetFuncSvc}
        /\ ret[r].err \in {ErrFunction, ErrEnvironment} =>
              (strategy[r] = "-" /\ envHit[r] = "miss" /\ fsCache[funcMeta[r]] # r)
        /\ ret[r].err = ErrGetPool => (strategy[r] = "POOLMGR" /\ fsCache[funcMeta[r]] # r)
        /\ ret[r].err = ErrGetFuncSvc => (strategy[r] = "POOLMGR" /\ fsCache[funcMeta[r]] # r)
        /\ Answered(r) => Result(r) = ret[r]
        /\ pc[r] # "respond" => Answered(r)

\* C13 witness: the direct requester of a creation whose GetPool failed has
\* received the GetPool error.
C13_Witness ==
    \E r \in Reqs : role[r] = "create" /\ Answered(r) /\ Result(r) = Response(NoSvc, ErrGetPool)

\* C14: a creation goroutine resolves, dispatches, delivers and only then releases:
\* while the triggering requester has no result the key's marker is in the table
\* with its counter at 1, the backend is dispatched only after the resolution,
\* and every wait goroutine past its Wait joined a creation whose requester has
\* its result.
C14_DeliverBeforeRelease ==
    /\ \A r \in Reqs : (role[r] = "create" /\ ~Answered(r)) =>
          /\ <<funcMeta[r], r>> \in fsCreateWg
          /\ wgCount[r] = 1
          /\ pc[r] \notin {"delete", "wgDone", "done"}
    /\ \A r \in Reqs : strategy[r] # "-" => envHit[r] # "-"
    /\ \A r \in Reqs : pc[r] \in {"backend", "GetPool", "GetFuncSvc"} => envHit[r] # "-"
    /\ \A d \in Reqs : AfterWait(d) => Answered(waitWg[d])

\* C14 witness: the triggering requester has its result, the marker is still in
\* the table and a duplicate is waiting on it.
C14_Witness ==
    \E r, d \in Reqs :
        /\ role[r] = "create" /\ Answered(r) /\ pc[r] = "delete"
        /\ <<funcMeta[r], r>> \in fsCreateWg
        /\ pc[d] = "wgWait" /\ waitWg[d] = r

\* C15: a wait goroutine past its Wait (reading the registry, delivering, or
\* finished) joined a creation that has fired its release signal; a wait goroutine
\* whose joined creation has not fired it is still at its Wait with no result.
C15_WaitBeforeRegistryRead ==
    \A d \in Reqs : role[d] = "wait" =>
        /\ waitWg[d] \in Reqs /\ role[waitWg[d]] = "create"
        /\ funcMeta[waitWg[d]] = funcMeta[d]
        /\ AfterWait(d) => (pc[waitWg[d]] = "done" /\ wgCount[waitWg[d]] = 0)
        /\ pc[waitWg[d]] # "done" => (pc[d] = "wgWait" /\ ~Answered(d) /\ ret[d] = NoResponse)

\* C15 witness: a duplicate whose joined creation has fired its release signal has
\* read the registry and is about to deliver.
C15_Witness ==
    \E e \in Reqs :
        /\ role[e] = "wait" /\ pc[e] = "respondWait"
        /\ pc[waitWg[e]] = "done" /\ Answered(waitWg[e])

\* C16: the marker table is never accessed by two goroutines at once: no state has
\* a creation goroutine at its delete while the admission goroutine is at its
\* lookup or insert, and the runtime never throws on the map.
C16_NoConcurrentMapAccess ==
    /\ ~((\E r \in Reqs : pc[r] = "delete") /\ AdmissionAtMap)
    /\ ~fatal

\* C17: the registry is read by wait goroutines only.  A creation goroutine
\* delivers what its own pipeline returned (its own handle or the empty result, or
\* a stage's error, never the registry's answer), a wait goroutine never resolves
\* an environment or dispatches to a backend, the registry changes only in the
\* pool manager's GetFuncSvc of a creation, and the environment cache only in a
\* creation's Set.
C17_RegistryReadOnlyByDuplicates ==
    [][/\ \A r \in Reqs : (role'[r] = "create" /\ Answered(r)') =>
              /\ Result(r)' = ret'[r]
              /\ Result(r)'.funcSvc \in {NoSvc, r}
              /\ Result(r)'.err # ErrRegistry
       /\ \A r \in Reqs : role'[r] = "wait" =>
              /\ envHit'[r] = "-" /\ strategy'[r] = "-"
              /\ pc'[r] \in {"wgWait", "GetByFunction", "respondWait", "done"}
       /\ \A r \in Reqs : (role[r] = "wait" /\ pc'[r] # pc[r]) =>
              (fsCache' = fsCache /\ functionEnv' = functionEnv)
       /\ fsCache' # fsCache =>
              \E r \in Reqs : /\ role[r] = "create" /\ pc[r] = "GetFuncSvc"
                              /\ pc'[r] = "respond"
                              /\ fsCache' = [fsCache EXCEPT ![funcMeta[r]] = r]
       /\ functionEnv' # functionEnv =>
              \E r \in Reqs : role[r] = "create" /\ pc[r] = "functionEnv_Set"]_vars

\* C17 witness: a creation whose GetFuncSvc failed has delivered that error to its
\* requester although the registry holds a service for the key.
C17_Witness ==
    \E r \in Reqs :
        /\ role[r] = "create" /\ Answered(r) /\ Result(r) = Response(NoSvc, ErrGetFuncSvc)
        /\ fsCache[funcMeta[r]] # NoSvc

\* C18: the release step of a creation goroutine removes exactly the marker that
\* was inserted for it and leaves every other marker in place, and the marker of a
\* creation that has not yet released is in the table.
C18_ReleaseRemovesOwnMarker ==
    [][/\ \A r \in Reqs : (pc[r] = "delete" /\ pc'[r] = "wgDone") =>
              /\ <<funcMeta[r], r>> \in fsCreateWg
              /\ fsCreateWg' = fsCreateWg \ {<<funcMeta[r], r>>}
       /\ \A q \in Reqs : (role'[q] = "create" /\ BeforeDelete(q)') =>
              <<funcMeta[q], q>> \in fsCreateWg']_vars

\* C18 witness: a creation has just released its marker while the marker of a
\* creation for another key is in the table.
C18_Witness ==
    \E r, q \in Reqs :
        /\ pc[r] = "wgDone" /\ funcMeta[q] # funcMeta[r]
        /\ BeforeDelete(q) /\ <<funcMeta[q], q>> \in fsCreateWg

\* C19: a WaitGroup's counter is 1 from the insertion of its marker until its
\* creation goroutine's Done and 0 otherwise (never negative, never above 1); the
\* WaitGroup the admission found is one a miss made for the same key; and a wait
\* goroutine at Wait on a WaitGroup whose Done has been executed can proceed.
C19_SignalFiresOnce ==
    /\ \A w \in Reqs :
          /\ wgCount[w] \in {0, 1}
          /\ wgCount[w] = 1 <=> (role[w] = "create" /\ pc[w] # "done")
    /\ (admReq # NoReq /\ admFound) =>
          (admWg \in Reqs /\ role[admWg] = "create" /\ funcMeta[admWg] = funcMeta[admReq])
    /\ \A d \in Reqs : (~fatal /\ pc[d] = "wgWait" /\ pc[waitWg[d]] = "done") =>
          ENABLED WgWait(d)

\* C19 witness: the admission found a marker whose signal has fired before the
\* wait goroutine for the request was launched.
C19_Witness ==
    admReq # NoReq /\ admFound /\ pc[admWg] = "done" /\ wgCount[admWg] = 0

\* C20: a duplicate that joined a deploy-backed creation does not receive what the
\* direct requester received: the creation registers nothing and delivers the
\* empty result with no error, the duplicate receives the registry's not-found
\* error or the handle a pool-backed creation of the key registered.
C20_DeployDuplicatesDiffer ==
    \A d \in Reqs :
        (role[d] = "wait" /\ Answered(d) /\ strategy[waitWg[d]] = "DEPLOY") =>
            /\ Result(waitWg[d]) = Response(NoSvc, ErrNil)
            /\ fsCache[funcMeta[d]] # waitWg[d]
            /\ Result(d) # Result(waitWg[d])
            /\ \/ Result(d) = Response(NoSvc, ErrRegistry)
               \/ /\ Result(d).err = ErrNil
                  /\ Result(d).funcSvc \in Reqs \ {waitWg[d]}
                  /\ strategy[Result(d).funcSvc] = "POOLMGR"

\* C20 witness: the direct requester of a deploy-backed creation has the empty
\* result and a duplicate that joined it has the registry's not-found error.
C20_Witness ==
    \E d \in Reqs :
        /\ role[d] = "wait" /\ Answered(d) /\ strategy[waitWg[d]] = "DEPLOY"
        /\ Result(waitWg[d]) = Response(NoSvc, ErrNil)
        /\ Result(d) = Response(NoSvc, ErrRegistry)

====
